---- MODULE Spec2Model ----
(***************************************************************************)
(* Convert2EBRF: the conversion task (ConvertTask), the host dialog that   *)
(* drives it (Brf2EbrfDialog.on_apply) and the settings forms whose        *)
(* validity gates the Convert button, modelled from                        *)
(* src/src/convert2ebrf/brf_to_ebrf.py and src/src/convert2ebrf/widgets.py.*)
(*                                                                         *)
(* Fractions are exact rationals <<numerator, denominator>>: the code      *)
(* computes them in floating point, which is exact for the value 1.0       *)
(* (x = parser_steps gives x / parser_steps = 1.0) and monotone elsewhere. *)
(***************************************************************************)
EXTENDS Integers, Sequences, FiniteSets, TLC

\* ------------------------------------------------------------------ bounds
\* Largest number of files in input_brf_list.
MaxInputs == 3
\* Largest len(parser) a created parser may have.
MaxSteps == 2
\* Largest number of progress_callback calls the primitive makes per file.
MaxCallbacks == 2
\* Largest number of further tasks on_apply submits besides the one followed.
MaxOtherRuns == 1

\* ------------------------------------------------------- program constants
number_of_steps == 1000
\* The initial values of the "Cells per line" and "Lines per page" spin boxes.
cells_per_line == 40
lines_per_page == 25

NONE == "NONE"
PageNumberPosition == {NONE, "TOP_LEFT", "TOP_RIGHT", "BOTTOM_LEFT", "BOTTOM_RIGHT"}

\* The value of a property that is absent (Python None).
PyNone == "<None>"
\* The file names a picker can hold besides the empty string.
PickedPaths == {"p", "q"}

VARIABLES
    \* ConversionPageSettingsWidget
    odd_bpn_position, even_bpn_position, odd_ppn_position, even_ppn_position,
    is_valid, isValidChanged, detect_running_heads,
    \* ConversionGeneralSettingsWidget
    input_brf, include_images, image_dir, output_ebrf,
    \* Brf2EbrfDialog
    convert_enabled,
    \* ConvertTask and the call of __call__ on the worker
    pc, num_of_inputs, cancel_requested, index, parser_steps, lastX, callbacks,
    exc, temp_dir, out_temp_dir, out_file_open, staged, parsersCreated, invoked,
    emitted, lastProgress, errorCarried,
    \* the file system at output_ebrf
    dest, destBefore,
    \* the host's QProgressDialog (on_apply)
    shown, pd_value, pd_cancelled,
    \* the arguments on_apply gave to the RunnableAdapter of the task followed,
    \* and the number of further tasks it has submitted to the thread pool
    request, others,
    \* observations of the run so far
    obs

formVars == <<odd_bpn_position, even_bpn_position, odd_ppn_position,
              even_ppn_position, is_valid, isValidChanged, detect_running_heads,
              input_brf, include_images, image_dir, output_ebrf, convert_enabled>>

taskVars == <<pc, num_of_inputs, cancel_requested, index, parser_steps, lastX,
              callbacks, exc, temp_dir, out_temp_dir, out_file_open, staged,
              parsersCreated, invoked, emitted, lastProgress, errorCarried>>

hostVars == <<shown, pd_value, pd_cancelled>>

applyVars == <<request, others>>

runVars == <<taskVars, dest, destBefore, hostVars, applyVars, obs>>

vars == <<formVars, runVars>>

\* =====================================================================
\* Settings forms
\* =====================================================================

\* A mutation of NewValidity: the comparison without the NONE exemption.
NewValidityNoNoneExemption(ob, op, eb, ep) ==
    ob # op /\ eb # ep

\* new_validity of ConversionPageSettingsWidget._update_validity.
NewValidity(ob, op, eb, ep) ==
    /\ (ob = NONE \/ ob # op)
    /\ (eb = NONE \/ eb # ep)

\* ConversionGeneralSettingsWidget.image_directory (the property).
ImageDirectory(checked, text) ==
    IF checked THEN text ELSE PyNone

\* A mutation of DialogValidity: the page settings form is not consulted.
DialogValidityWithoutPage(pageValid, inBrf, imgDir, outEbrf) ==
    "" \notin {inBrf, imgDir, outEbrf}

\* is_valid of Brf2EbrfDialog._update_validity.
DialogValidity(pageValid, inBrf, imgDir, outEbrf) ==
    pageValid /\ "" \notin {inBrf, imgDir, outEbrf}

\* The emissions of a call of _update_validity that emitted nothing.
NotEmitted == <<>>

\* A mutation of UpdateValidity: the notification fires on every call,
\* whether or not the boolean changed.
UpdateValidityLevelTriggered(ob, op, eb, ep) ==
    LET new_validity == NewValidity(ob, op, eb, ep) IN
    /\ is_valid' = new_validity
    /\ isValidChanged' = <<new_validity>>
    /\ convert_enabled' = DialogValidity(new_validity, input_brf,
                              ImageDirectory(include_images, image_dir), output_ebrf)

\* ConversionPageSettingsWidget._update_validity after the four slots hold
\* ob, op, eb, ep; isValidChanged is connected to Brf2EbrfDialog._update_validity.
\* isValidChanged holds the emissions of this call: <<value>> or NotEmitted.
UpdateValidity(ob, op, eb, ep) ==
    LET new_validity == NewValidity(ob, op, eb, ep) IN
    IF is_valid # new_validity
    THEN /\ is_valid' = new_validity
         /\ isValidChanged' = <<new_validity>>
         /\ convert_enabled' = DialogValidity(new_validity, input_brf,
                                   ImageDirectory(include_images, image_dir), output_ebrf)
    ELSE /\ isValidChanged' = NotEmitted
         /\ UNCHANGED <<is_valid, convert_enabled>>

\* currentIndexChanged of the "Odd Braille page number" combo.
SetOddBpn ==
    \E v \in PageNumberPosition \ {odd_bpn_position} :
        /\ odd_bpn_position' = v
        /\ UpdateValidity(v, odd_ppn_position, even_bpn_position, even_ppn_position)
        /\ UNCHANGED <<even_bpn_position, odd_ppn_position, even_ppn_position,
                       detect_running_heads, input_brf, include_images, image_dir,
                       output_ebrf, runVars>>

\* currentIndexChanged of the "Even Braille page number" combo.
SetEvenBpn ==
    \E v \in PageNumberPosition \ {even_bpn_position} :
        /\ even_bpn_position' = v
        /\ UpdateValidity(odd_bpn_position, odd_ppn_position, v, even_ppn_position)
        /\ UNCHANGED <<odd_bpn_position, odd_ppn_position, even_ppn_position,
                       detect_running_heads, input_brf, include_images, image_dir,
                       output_ebrf, runVars>>

\* currentIndexChanged of the "Odd print page number" combo.
SetOddPpn ==
    \E v \in PageNumberPosition \ {odd_ppn_position} :
        /\ odd_ppn_position' = v
        /\ UpdateValidity(odd_bpn_position, v, even_bpn_position, even_ppn_position)
        /\ UNCHANGED <<odd_bpn_position, even_bpn_position, even_ppn_position,
                       detect_running_heads, input_brf, include_images, image_dir,
                       output_ebrf, runVars>>

\* currentIndexChanged of the "Even print page number" combo.
SetEvenPpn ==
    \E v \in PageNumberPosition \ {even_ppn_position} :
        /\ even_ppn_position' = v
        /\ UpdateValidity(odd_bpn_position, odd_ppn_position, even_bpn_position, v)
        /\ UNCHANGED <<odd_bpn_position, even_bpn_position, odd_ppn_position,
                       detect_running_heads, input_brf, include_images, image_dir,
                       output_ebrf, runVars>>

\* A "Has running heads" checkbox that the task's arguments follow.
ToggleDetectRunningHeadsLive ==
    /\ detect_running_heads' = ~detect_running_heads
    /\ request' = [i \in 1..Len(request) |->
                      [request[i] EXCEPT !.detect_running_heads = ~detect_running_heads]]
    /\ UNCHANGED <<odd_bpn_position, even_bpn_position, odd_ppn_position,
                   even_ppn_position, is_valid, isValidChanged, input_brf,
                   include_images, image_dir, output_ebrf, convert_enabled,
                   taskVars, dest, destBefore, hostVars, others, obs>>

\* toggled of the "Has running heads" checkbox: detectRunningHeadsChanged,
\* which has no slot in the dialog.
ToggleDetectRunningHeads ==
    /\ detect_running_heads' = ~detect_running_heads
    /\ UNCHANGED <<odd_bpn_position, even_bpn_position, odd_ppn_position,
                   even_ppn_position, is_valid, isValidChanged, input_brf,
                   include_images, image_dir, output_ebrf, convert_enabled, runVars>>

\* Brf2EbrfDialog._update_validity run with the general fields inBrf, checked,
\* imgText, outEbrf (the slot of inputBrfChanged, imagesDirectoryChanged and
\* outputEbrfChanged).
DialogUpdate(inBrf, checked, imgText, outEbrf) ==
    convert_enabled' = DialogValidity(is_valid, inBrf,
                                      ImageDirectory(checked, imgText), outEbrf)

pageVars == <<odd_bpn_position, even_bpn_position, odd_ppn_position,
              even_ppn_position, is_valid, isValidChanged, detect_running_heads>>

\* FilePickerWidget._browse_clicked of the input picker: a non-empty choice is
\* stored; textChanged fires only when the text differs.
BrowseInput ==
    \E v \in PickedPaths \ {input_brf} :
        /\ input_brf' = v
        /\ DialogUpdate(v, include_images, image_dir, output_ebrf)
        /\ UNCHANGED <<pageVars, include_images, image_dir, output_ebrf, runVars>>

\* currentIndexChanged of the input type combo: _clear_input_brf.
ClearInputBrf ==
    /\ input_brf' = ""
    /\ IF input_brf # ""
       THEN DialogUpdate("", include_images, image_dir, output_ebrf)
       ELSE UNCHANGED convert_enabled
    /\ UNCHANGED <<pageVars, include_images, image_dir, output_ebrf, runVars>>

\* toggled of the "Include images" checkbox: _update_include_images_state.
\* The dialog recomputes only when the picker's text changes.
ToggleIncludeImages ==
    LET checked == ~include_images IN
    /\ include_images' = checked
    /\ image_dir' = IF checked THEN image_dir ELSE ""
    /\ IF ~checked /\ image_dir # ""
       THEN DialogUpdate(input_brf, checked, "", output_ebrf)
       ELSE UNCHANGED convert_enabled
    /\ UNCHANGED <<pageVars, input_brf, output_ebrf, runVars>>

\* _browse_clicked of the image directory picker (enabled when checked).
BrowseImages ==
    /\ include_images
    /\ \E v \in PickedPaths \ {image_dir} :
        /\ image_dir' = v
        /\ DialogUpdate(input_brf, include_images, v, output_ebrf)
    /\ UNCHANGED <<pageVars, input_brf, include_images, output_ebrf, runVars>>

\* _browse_clicked of the output picker.
BrowseOutput ==
    \E v \in PickedPaths \ {output_ebrf} :
        /\ output_ebrf' = v
        /\ DialogUpdate(input_brf, include_images, image_dir, v)
        /\ UNCHANGED <<pageVars, input_brf, include_images, image_dir, runVars>>

\* The values a property setter of the general settings form is given.
SetValues == {""} \cup PickedPaths

\* What is left of runVars besides obs.
runVarsButObs == <<taskVars, dest, destBefore, hostVars, applyVars>>

\* obs after the assignment of value to the property field: the value the
\* property held before, the value it returns now, whether the field's
\* changed signal fired and whether the dialog's _update_validity ran.
ObsSet(o, field, value, old, read, fired) ==
    [o EXCEPT !.lastSet = <<[field |-> field, value |-> value, old |-> old,
                            read |-> read, fired |-> fired, recomputed |-> fired]>>]

\* input_brf.setter: the input type combo is set from os.path.isdir(value);
\* when its index changes, _clear_input_brf empties the picker first; then
\* the picker's file_name is set.  textChanged, hence inputBrfChanged and
\* the dialog's _update_validity, fire whenever the text differs.
SetInputBrf ==
    \E v \in SetValues, indexChanged \in BOOLEAN :
        LET cleared == IF indexChanged THEN "" ELSE input_brf
            fired == (cleared # input_brf) \/ (v # cleared)
        IN  /\ input_brf' = v
            /\ IF fired
               THEN DialogUpdate(v, include_images, image_dir, output_ebrf)
               ELSE UNCHANGED convert_enabled
            /\ obs' = ObsSet(obs, "input_brf", v, input_brf, input_brf', fired)
            /\ UNCHANGED <<pageVars, include_images, image_dir, output_ebrf,
                           runVarsButObs>>

\* image_directory.setter: None unchecks the box (toggled runs
\* _update_include_images_state, which empties the picker); a string checks
\* the box and sets the picker's file_name.  imagesDirectoryChanged and the
\* dialog's _update_validity fire only when the picker's text differs.
SetImageDirectory ==
    \E v \in SetValues \cup {PyNone} :
        LET checked == v # PyNone
            text == IF checked THEN v ELSE ""
            fired == text # image_dir
        IN  /\ include_images' = checked
            /\ image_dir' = text
            /\ IF fired
               THEN DialogUpdate(input_brf, checked, text, output_ebrf)
               ELSE UNCHANGED convert_enabled
            /\ obs' = ObsSet(obs, "image_directory", v,
                             ImageDirectory(include_images, image_dir),
                             ImageDirectory(include_images', image_dir'), fired)
            /\ UNCHANGED <<pageVars, input_brf, output_ebrf, runVarsButObs>>

\* output_ebrf.setter: "self._output_ebrf_edit.text = value".  The picker is
\* a FilePickerWidget, which has file_name and no text: the assignment does
\* not reach the line edit, whether it binds a new attribute or raises.
SetOutputEbrf ==
    \E v \in SetValues :
        /\ UNCHANGED <<formVars, runVarsButObs>>
        /\ obs' = ObsSet(obs, "output_ebrf", v, output_ebrf, output_ebrf', FALSE)

\* The property setters of the general settings form, with the output
\* picker and one page number slot.
SetterNext ==
    \/ SetInputBrf \/ SetImageDirectory \/ SetOutputEbrf
    \/ BrowseOutput \/ SetOddBpn

FormNext ==
    \/ SetOddBpn \/ SetEvenBpn \/ SetOddPpn \/ SetEvenPpn
    \/ BrowseInput \/ ClearInputBrf \/ ToggleIncludeImages \/ BrowseImages
    \/ BrowseOutput


\* Brf2EbrfDialog after construction: the combos hold their defaults, the
\* pickers are empty, and both _update_validity methods have run once (the
\* widget's call found _is_valid = False and emitted the new value if True).
FormFieldsInit ==
    /\ odd_bpn_position = "BOTTOM_RIGHT"
    /\ even_bpn_position = NONE
    /\ odd_ppn_position = "TOP_RIGHT"
    /\ even_ppn_position = NONE
    /\ is_valid = NewValidity(odd_bpn_position, odd_ppn_position,
                              even_bpn_position, even_ppn_position)
    /\ isValidChanged = IF is_valid THEN <<TRUE>> ELSE NotEmitted
    /\ detect_running_heads = TRUE
    /\ include_images = FALSE
    /\ image_dir = ""

\* =====================================================================
\* ConvertTask
\* =====================================================================

ParsingCancelledException == "ParsingCancelledException"

\* The exceptions other than the cancellation signal, named by the step that
\* raises them.
Failures == {"OSError:open", "OSError:TemporaryDirectory", "Exception:create_parser",
             "ZeroDivisionError", "Exception:convert", "Exception:make_archive",
             "OSError:copyfileobj"}

Terminals == {"finished", "cancelled", "errorRaised"}

Ended == pc \in {"returned", "raised"}

\* a <= b for fractions with positive denominators.
LeqFrac(a, b) == a[1] * b[2] <= b[1] * a[2]

EqFrac(a, b) == a[1] * b[2] = b[1] * a[2]

ObsInit ==
    [cancelCalled |-> FALSE, cancelBeforeFirst |-> FALSE, cancelDone |-> -1,
     primFailedAt |-> -1, unlinkFailed |-> FALSE, failure |-> FALSE,
     raisedBy |-> "none",
     firstX |-> -1, contractFull |-> TRUE, crossed |-> {},
     onesByProgress |-> 0, onesByFinished |-> 0, oneSources |-> {},
     destChanges |-> 0, calls |-> <<>>,
     archivedVols |-> {}, archivedImages |-> FALSE,
     applied |-> <<>>, declined |-> FALSE, lastSet |-> <<>>]

\* No task has been given to the thread pool.
NoRequest == <<>>

\* The PageLayout on_apply builds from the page settings form.
PageLayout(ob, eb, op, ep) ==
    [odd_braille_page_number |-> ob, even_braille_page_number |-> eb,
     odd_print_page_number |-> op, even_print_page_number |-> ep,
     cells_per_line |-> cells_per_line, lines_per_page |-> lines_per_page]

\* The arguments on_apply gives to RunnableAdapter: brf_list (n files made
\* from input_brf), output_ebrf, image_directory, detect_running_heads and
\* page_layout, each read from the forms at that moment.
MakeRequest(n) ==
    [input_brf |-> input_brf, num_of_inputs |-> n, output_ebrf |-> output_ebrf,
     image_directory |-> ImageDirectory(include_images, image_dir),
     detect_running_heads |-> detect_running_heads,
     page_layout |-> PageLayout(odd_bpn_position, even_bpn_position,
                                odd_ppn_position, even_ppn_position)]

\* What the fields hold now, with n the length of the input list.
FieldsNow(n) ==
    [odd_bpn |-> odd_bpn_position, even_bpn |-> even_bpn_position,
     odd_ppn |-> odd_ppn_position, even_ppn |-> even_ppn_position,
     input_brf |-> input_brf, n |-> n, output_ebrf |-> output_ebrf,
     include_images |-> include_images, image_dir |-> image_dir,
     detect_running_heads |-> detect_running_heads]

\* The state in which no ConvertTask exists yet.
NoTask ==
    /\ pc = "none"
    /\ num_of_inputs = 0
    /\ cancel_requested = FALSE
    /\ index = 0
    /\ parser_steps = 0
    /\ lastX = -1
    /\ callbacks = 0
    /\ exc = "none"
    /\ temp_dir = FALSE
    /\ out_temp_dir = FALSE
    /\ out_file_open = FALSE
    /\ staged = {}
    /\ parsersCreated = {}
    /\ invoked = {}
    /\ emitted = <<>>
    /\ lastProgress = <<>>
    /\ errorCarried = "none"
    /\ shown = <<>>
    /\ pd_value = -1
    /\ pd_cancelled = FALSE
    /\ request = NoRequest
    /\ others = 0
    /\ obs = ObsInit

\* The dialog as constructed, before any conversion.
FormInit ==
    /\ FormFieldsInit
    /\ input_brf = ""
    /\ output_ebrf = ""
    /\ convert_enabled = DialogValidity(is_valid, input_brf,
                             ImageDirectory(include_images, image_dir), output_ebrf)
    /\ NoTask
    /\ dest = "absent"
    /\ destBefore = "absent"

\* ConvertTask.__init__ and the end of on_apply: the task is queued on the
\* thread pool with a list of num_of_inputs files; the file at output_ebrf is
\* absent or holds an earlier archive.
Init ==
    /\ FormFieldsInit
    /\ input_brf = "p"
    /\ output_ebrf = "q"
    /\ convert_enabled = DialogValidity(is_valid, input_brf,
                             ImageDirectory(include_images, image_dir), output_ebrf)
    /\ pc = "call"
    /\ num_of_inputs \in 0..MaxInputs
    /\ cancel_requested = FALSE
    /\ index = 0
    /\ parser_steps = 0
    /\ lastX = -1
    /\ callbacks = 0
    /\ exc = "none"
    /\ temp_dir = FALSE
    /\ out_temp_dir = FALSE
    /\ out_file_open = FALSE
    /\ staged = {}
    /\ parsersCreated = {}
    /\ invoked = {}
    /\ emitted = <<>>
    /\ lastProgress = <<>>
    /\ errorCarried = "none"
    /\ destBefore \in {"absent", "old"}
    /\ dest = destBefore
    /\ shown = <<>>
    /\ pd_value = -1
    /\ pd_cancelled = FALSE
    /\ request = <<MakeRequest(num_of_inputs)>>
    /\ others = 0
    /\ obs = [ObsInit EXCEPT !.applied = <<FieldsNow(num_of_inputs)>>]

\* update_progress of on_apply: pd.value = int(value * number_of_steps).
PdValue(value) == (value[1] * number_of_steps) \div value[2]

\* A mutation of OverallFraction: the index of the input is left out, as when
\* progress carried the fraction of one file only.
OverallFractionWithoutIndex(i, p, n) == <<p[1], n * p[2]>>

\* The argument of update_progress in the slot of progress:
\* (i + p) / num_of_inputs, p the fraction <<x, parser_steps>>.
OverallFraction(i, p, n) == <<i * p[2] + p[1], n * p[2]>>

\* A mutation of ProgressArgs: the index of the next input is emitted.
ProgressArgsNextIndex(i, x, steps) ==
    [index |-> i + 1, fraction |-> <<x, steps>>]

\* The arguments of progress.emit in the progress_callback lambda of _convert:
\* (index, x / parser_steps).
ProgressArgs(i, x, steps) ==
    [index |-> i, fraction |-> <<x, steps>>]

\* An exception leaving _convert without the with blocks' cleanup: the
\* temporary directories stay behind and out_file stays open.
RaiseWithoutCleanup(e) ==
    /\ exc' = e
    /\ UNCHANGED <<temp_dir, out_temp_dir, out_file_open>>
    /\ pc' = IF e = ParsingCancelledException THEN "except_cancelled" ELSE "except_error"

\* An exception e leaves _convert: the with blocks remove both temporary
\* directories and close out_file, and __call__ enters the matching handler.
Raise(e) ==
    /\ exc' = e
    /\ temp_dir' = FALSE
    /\ out_temp_dir' = FALSE
    /\ out_file_open' = FALSE
    /\ pc' = IF e = ParsingCancelledException THEN "except_cancelled" ELSE "except_error"

\* obs after a step that raised e out of _convert.
ObsRaise(o, e) ==
    [o EXCEPT !.failure = e \in Failures, !.raisedBy = e]


\* The positions k with value = k / n, for the host's overall fraction.
Crossings(value, n) ==
    IF n = 0 THEN {} ELSE {k \in 0..n : EqFrac(value, <<k, n>>)}

IsOne(value) == value[1] = value[2]

\* ConvertTask.__call__ begins: started.emit(), whose slot is
\* update_progress(0).
Call ==
    /\ pc = "call"
    /\ emitted' = Append(emitted, "started")
    /\ shown' = <<0, 1>>
    /\ pd_value' = PdValue(<<0, 1>>)
    /\ pc' = "open"
    /\ obs' = [obs EXCEPT !.crossed = @ \cup Crossings(<<0, 1>>, num_of_inputs)]
    /\ UNCHANGED <<formVars, applyVars, num_of_inputs, cancel_requested, index, parser_steps,
                   lastX, callbacks, exc, temp_dir, out_temp_dir, out_file_open,
                   staged, parsersCreated, invoked, lastProgress, errorCarried,
                   dest, destBefore, pd_cancelled>>

\* _convert: open(output_ebrf, "wb") creates the file or truncates it, or
\* raises.
OpenOutput ==
    /\ pc = "open"
    /\ \E ok \in BOOLEAN :
        IF ok
        THEN /\ dest' = "truncated"
             /\ out_file_open' = TRUE
             /\ pc' = "mktemp"
             /\ obs' = [obs EXCEPT !.destChanges = @ + 1]
             /\ UNCHANGED <<exc, temp_dir, out_temp_dir>>
        ELSE /\ Raise("OSError:open")
             /\ obs' = ObsRaise(obs, "OSError:open")
             /\ UNCHANGED dest
    /\ UNCHANGED <<formVars, applyVars, num_of_inputs, cancel_requested, index, parser_steps,
                   lastX, callbacks, staged, parsersCreated, invoked, emitted,
                   lastProgress, errorCarried, destBefore, hostVars>>

\* _convert: TemporaryDirectory() and os.makedirs of its images directory.
MakeTempDir ==
    /\ pc = "mktemp"
    /\ \E ok \in BOOLEAN :
        IF ok
        THEN /\ temp_dir' = TRUE
             /\ pc' = "loop"
             /\ UNCHANGED <<exc, out_temp_dir, out_file_open, obs>>
        ELSE /\ Raise("OSError:TemporaryDirectory")
             /\ obs' = ObsRaise(obs, "OSError:TemporaryDirectory")
    /\ UNCHANGED <<formVars, applyVars, num_of_inputs, cancel_requested, index, parser_steps,
                   lastX, callbacks, staged, parsersCreated, invoked, emitted,
                   lastProgress, errorCarried, dest, destBefore, hostVars>>

\* _convert, one iteration of the loop up to the call of convert_brf2ebrf:
\* create_brf2ebrf_parser for input index, parser_steps = len(parser), and the
\* primitive is entered.  Nothing here reads _cancel_requested.
CreateParser ==
    /\ pc = "loop"
    /\ index < num_of_inputs
    /\ parsersCreated' = parsersCreated \cup {index}
    /\ \E ok \in BOOLEAN, steps \in 0..MaxSteps :
        IF ok
        THEN /\ parser_steps' = steps
             /\ invoked' = invoked \cup {index}
             /\ lastX' = -1
             /\ callbacks' = 0
             /\ pc' = "primitive"
             /\ obs' = [obs EXCEPT !.firstX = -1, !.calls = Append(@, index)]
             /\ UNCHANGED <<exc, temp_dir, out_temp_dir, out_file_open>>
        ELSE /\ steps = 0
             /\ Raise("Exception:create_parser")
             /\ obs' = ObsRaise(obs, "Exception:create_parser")
             /\ UNCHANGED <<parser_steps, invoked, lastX, callbacks>>
    /\ UNCHANGED <<formVars, applyVars, num_of_inputs, cancel_requested, index, staged, emitted,
                   lastProgress, errorCarried, dest, destBefore, hostVars>>

\* convert_brf2ebrf calls progress_callback(x), x not below its last report:
\* the lambda emits progress(index, x / parser_steps), whose slot is
\* update_progress((i + p) / num_of_inputs).
PrimProgress ==
    /\ pc = "primitive"
    /\ callbacks < MaxCallbacks
    /\ parser_steps > 0
    /\ \E x \in (IF lastX < 0 THEN 0 ELSE lastX)..parser_steps :
        LET args == ProgressArgs(index, x, parser_steps)
            value == OverallFraction(args.index, args.fraction, num_of_inputs)
        IN  /\ emitted' = Append(emitted, "progress")
            /\ lastProgress' = args
            /\ shown' = value
            /\ pd_value' = PdValue(value)
            /\ lastX' = x
            /\ obs' = [obs EXCEPT
                         !.firstX = IF @ < 0 THEN x ELSE @,
                         !.crossed = @ \cup Crossings(value, num_of_inputs),
                         !.onesByProgress = IF IsOne(value) THEN @ + 1 ELSE @,
                         !.oneSources = IF IsOne(value) THEN @ \cup {args} ELSE @]
    /\ callbacks' = callbacks + 1
    /\ UNCHANGED <<formVars, applyVars, pc, num_of_inputs, cancel_requested, index, parser_steps,
                   exc, temp_dir, out_temp_dir, out_file_open, staged, parsersCreated,
                   invoked, errorCarried, dest, destBefore, pd_cancelled>>

\* convert_brf2ebrf calls progress_callback on a parser of no steps: the
\* lambda's x / parser_steps raises ZeroDivisionError before anything is emitted.
PrimProgressNoSteps ==
    /\ pc = "primitive"
    /\ callbacks < MaxCallbacks
    /\ parser_steps = 0
    /\ Raise("ZeroDivisionError")
    /\ obs' = ObsRaise(obs, "ZeroDivisionError")
    /\ UNCHANGED <<formVars, applyVars, num_of_inputs, cancel_requested, index, parser_steps,
                   lastX, callbacks, staged, parsersCreated, invoked, emitted,
                   lastProgress, errorCarried, dest, destBefore, hostVars>>

\* convert_brf2ebrf polls is_cancelled(), reads _cancel_requested as True and
\* raises ParsingCancelledException.
PrimCancelled ==
    /\ pc = "primitive"
    /\ cancel_requested
    /\ Raise(ParsingCancelledException)
    /\ obs' = ObsRaise(obs, ParsingCancelledException)
    /\ UNCHANGED <<formVars, applyVars, num_of_inputs, cancel_requested, index, parser_steps,
                   lastX, callbacks, staged, parsersCreated, invoked, emitted,
                   lastProgress, errorCarried, dest, destBefore, hostVars>>

\* convert_brf2ebrf raises an exception other than the cancellation signal.
PrimFail ==
    /\ pc = "primitive"
    /\ Raise("Exception:convert")
    /\ obs' = [ObsRaise(obs, "Exception:convert") EXCEPT !.primFailedAt = index]
    /\ UNCHANGED <<formVars, applyVars, num_of_inputs, cancel_requested, index, parser_steps,
                   lastX, callbacks, staged, parsersCreated, invoked, emitted,
                   lastProgress, errorCarried, dest, destBefore, hostVars>>

\* convert_brf2ebrf returns: vol{index}.xhtml is staged and the loop goes on.
PrimReturn ==
    /\ pc = "primitive"
    /\ staged' = staged \cup {index}
    /\ index' = index + 1
    /\ pc' = "loop"
    /\ obs' = [obs EXCEPT !.contractFull =
                   @ /\ obs.firstX = 0 /\ lastX = parser_steps]
    /\ UNCHANGED <<formVars, applyVars, num_of_inputs, cancel_requested, parser_steps, lastX,
                   callbacks, exc, temp_dir, out_temp_dir, out_file_open,
                   parsersCreated, invoked, emitted, lastProgress, errorCarried,
                   dest, destBefore, hostVars>>

\* A loop that stops one input short of the list.
LoopEndEarly ==
    /\ pc = "loop"
    /\ index >= num_of_inputs - 1
    /\ pc' = "archive"
    /\ UNCHANGED <<formVars, applyVars, num_of_inputs, cancel_requested, index, parser_steps,
                   lastX, callbacks, exc, temp_dir, out_temp_dir, out_file_open,
                   staged, parsersCreated, invoked, emitted, lastProgress,
                   errorCarried, dest, destBefore, hostVars, obs>>

\* The loop of _convert is exhausted.
LoopEnd ==
    /\ pc = "loop"
    /\ index = num_of_inputs
    /\ pc' = "archive"
    /\ UNCHANGED <<formVars, applyVars, num_of_inputs, cancel_requested, index, parser_steps,
                   lastX, callbacks, exc, temp_dir, out_temp_dir, out_file_open,
                   staged, parsersCreated, invoked, emitted, lastProgress,
                   errorCarried, dest, destBefore, hostVars, obs>>

\* _convert: the second TemporaryDirectory and shutil.make_archive.
MakeArchive ==
    /\ pc = "archive"
    /\ \E ok \in BOOLEAN :
        IF ok
        THEN /\ out_temp_dir' = TRUE
             /\ pc' = "copy"
             /\ obs' = [obs EXCEPT !.archivedVols = staged, !.archivedImages = temp_dir]
             /\ UNCHANGED <<exc, temp_dir, out_file_open>>
        ELSE /\ Raise("Exception:make_archive")
             /\ obs' = ObsRaise(obs, "Exception:make_archive")
    /\ UNCHANGED <<formVars, applyVars, num_of_inputs, cancel_requested, index, parser_steps,
                   lastX, callbacks, staged, parsersCreated, invoked, emitted,
                   lastProgress, errorCarried, dest, destBefore, hostVars>>

\* _convert: shutil.copyfileobj into out_file, then the with blocks end
\* (both temporary directories removed, out_file closed).  A failing copy
\* leaves part of the archive in the file.
CopyArchive ==
    /\ pc = "copy"
    /\ \E ok \in BOOLEAN :
        IF ok
        THEN /\ dest' = "archive"
             /\ temp_dir' = FALSE
             /\ out_temp_dir' = FALSE
             /\ out_file_open' = FALSE
             /\ pc' = "emit_finished"
             /\ obs' = [obs EXCEPT !.destChanges = @ + 1]
             /\ UNCHANGED exc
        ELSE /\ dest' = "partial"
             /\ Raise("OSError:copyfileobj")
             /\ obs' = [ObsRaise(obs, "OSError:copyfileobj") EXCEPT !.destChanges = @ + 1]
    /\ UNCHANGED <<formVars, applyVars, num_of_inputs, cancel_requested, index, parser_steps,
                   lastX, callbacks, staged, parsersCreated, invoked, emitted,
                   lastProgress, errorCarried, destBefore, hostVars>>

\* __call__: finished.emit(), whose slot finished_converting calls
\* update_progress(1).
EmitFinished ==
    /\ pc = "emit_finished"
    /\ emitted' = Append(emitted, "finished")
    /\ shown' = <<1, 1>>
    /\ pd_value' = PdValue(<<1, 1>>)
    /\ pc' = "returned"
    /\ obs' = [obs EXCEPT !.onesByFinished = @ + 1,
                          !.crossed = @ \cup Crossings(<<1, 1>>, num_of_inputs)]
    /\ UNCHANGED <<formVars, applyVars, num_of_inputs, cancel_requested, index, parser_steps,
                   lastX, callbacks, exc, temp_dir, out_temp_dir, out_file_open,
                   staged, parsersCreated, invoked, lastProgress, errorCarried,
                   dest, destBefore, pd_cancelled>>

\* __call__, except ParsingCancelledException: Path.unlink(missing_ok=True)
\* removes the file (or finds none) and cancelled is emitted; any other error
\* of unlink leaves __call__ as an exception.  No slot is connected to
\* cancelled.
HandleCancelled ==
    /\ pc = "except_cancelled"
    /\ \E unlinked \in BOOLEAN :
        IF unlinked
        THEN /\ dest' = "absent"
             /\ emitted' = Append(emitted, "cancelled")
             /\ pc' = "returned"
             /\ UNCHANGED <<exc, obs>>
        ELSE /\ exc' = "OSError:unlink"
             /\ pc' = "raised"
             /\ obs' = [obs EXCEPT !.unlinkFailed = TRUE]
             /\ UNCHANGED <<dest, emitted>>
    /\ UNCHANGED <<formVars, applyVars, num_of_inputs, cancel_requested, index, parser_steps,
                   lastX, callbacks, temp_dir, out_temp_dir, out_file_open, staged,
                   parsersCreated, invoked, lastProgress, errorCarried, destBefore,
                   hostVars>>

\* An except clause that wraps what it caught before emitting it.
CarriedExceptionWrapped(e) == "RuntimeError:" \o e

\* __call__: "except Exception as e: ... self.errorRaised.emit(e)", the
\* argument of errorRaised is the caught object itself.
CarriedException(e) == e

\* __call__, except Exception as e: the same unlink, then errorRaised.emit(e),
\* whose slot error_raised calls pd.cancel().
HandleError ==
    /\ pc = "except_error"
    /\ \E unlinked \in BOOLEAN :
        IF unlinked
        THEN /\ dest' = "absent"
             /\ emitted' = Append(emitted, "errorRaised")
             /\ errorCarried' = CarriedException(exc)
             /\ pd_cancelled' = TRUE
             /\ pc' = "returned"
             /\ UNCHANGED <<exc, obs>>
        ELSE /\ exc' = "OSError:unlink"
             /\ pc' = "raised"
             /\ obs' = [obs EXCEPT !.unlinkFailed = TRUE]
             /\ UNCHANGED <<dest, emitted, errorCarried, pd_cancelled>>
    /\ UNCHANGED <<formVars, applyVars, num_of_inputs, cancel_requested, index, parser_steps,
                   lastX, callbacks, temp_dir, out_temp_dir, out_file_open, staged,
                   parsersCreated, invoked, lastProgress, destBefore, shown, pd_value>>

\* A cancel that acts on the run's outcome by itself: it emits cancelled and
\* removes the destination file.
CancelWithEffect ==
    /\ pc # "none"
    /\ ~cancel_requested
    /\ cancel_requested' = TRUE
    /\ emitted' = Append(emitted, "cancelled")
    /\ dest' = "absent"
    /\ obs' = [obs EXCEPT
                 !.cancelCalled = TRUE,
                 !.cancelBeforeFirst = ~Ended /\ invoked = {},
                 !.cancelDone = IF Ended THEN -1 ELSE Cardinality(staged)]
    /\ UNCHANGED <<formVars, applyVars, pc, num_of_inputs, index, parser_steps, lastX, callbacks,
                   exc, temp_dir, out_temp_dir, out_file_open, staged, parsersCreated,
                   invoked, lastProgress, errorCarried, destBefore, hostVars>>

\* A cancel that breaks into the primitive: a call in progress is ended at
\* once with ParsingCancelledException.
CancelInterrupts ==
    /\ pc # "none"
    /\ ~cancel_requested
    /\ cancel_requested' = TRUE
    /\ IF pc = "primitive"
       THEN /\ Raise(ParsingCancelledException)
            /\ obs' = [ObsRaise(obs, ParsingCancelledException) EXCEPT
                         !.cancelCalled = TRUE,
                         !.cancelDone = Cardinality(staged)]
       ELSE /\ obs' = [obs EXCEPT
                         !.cancelCalled = TRUE,
                         !.cancelBeforeFirst = ~Ended /\ invoked = {},
                         !.cancelDone = IF Ended THEN -1 ELSE Cardinality(staged)]
            /\ UNCHANGED <<pc, exc, temp_dir, out_temp_dir, out_file_open>>
    /\ UNCHANGED <<formVars, applyVars, num_of_inputs, index, parser_steps, lastX,
                   callbacks, staged, parsersCreated, invoked, emitted, lastProgress,
                   errorCarried, dest, destBefore, hostVars>>

\* ConvertTask.cancel, the slot of pd.canceled, on the control thread.
Cancel ==
    /\ pc # "none"
    /\ ~cancel_requested
    /\ cancel_requested' = TRUE
    /\ obs' = [obs EXCEPT
                 !.cancelCalled = TRUE,
                 !.cancelBeforeFirst = ~Ended /\ invoked = {},
                 !.cancelDone = IF Ended THEN -1 ELSE Cardinality(staged)]
    /\ UNCHANGED <<formVars, applyVars, pc, num_of_inputs, index, parser_steps, lastX, callbacks,
                   exc, temp_dir, out_temp_dir, out_file_open, staged, parsersCreated,
                   invoked, emitted, lastProgress, errorCarried, dest, destBefore,
                   hostVars>>

\* The answers to QMessageBox.question.
Answers == {"Yes", "No"}

\* on_apply from the PageLayout on: page_layout, the QProgressDialog and a
\* ConvertTask are created, the signals connected and the RunnableAdapter is
\* started on the thread pool with brf_list of n files.  The first such task
\* is followed step by step; on_apply does not look for a task still running,
\* so a later click submits a further one, counted in others.
StartTask(n) ==
    IF pc = "none"
    THEN /\ pc' = "call"
         /\ num_of_inputs' = n
         /\ request' = <<MakeRequest(n)>>
         /\ destBefore' = dest
         /\ obs' = [obs EXCEPT !.applied = <<FieldsNow(n)>>]
         /\ UNCHANGED <<formVars, cancel_requested, index, parser_steps,
                        lastX, callbacks, exc, temp_dir, out_temp_dir,
                        out_file_open, staged, parsersCreated, invoked,
                        emitted, lastProgress, errorCarried, dest,
                        hostVars, others>>
    ELSE /\ others < MaxOtherRuns
         /\ others' = others + 1
         /\ UNCHANGED <<formVars, taskVars, dest, destBefore, hostVars,
                        request, obs>>

\* An on_apply that asks but goes on whatever the answer.
OnApplyIgnoresAnswer ==
    /\ convert_enabled
    /\ \E n \in 0..MaxInputs, answer \in Answers :
        /\ dest = "absent" => answer = "Yes"
        /\ IF pc = "none"
           THEN /\ pc' = "call"
                /\ num_of_inputs' = n
                /\ request' = <<MakeRequest(n)>>
                /\ destBefore' = dest
                /\ obs' = [obs EXCEPT !.applied = <<FieldsNow(n)>>,
                                      !.declined = @ \/ answer = "No"]
                /\ UNCHANGED <<formVars, cancel_requested, index, parser_steps,
                               lastX, callbacks, exc, temp_dir, out_temp_dir,
                               out_file_open, staged, parsersCreated, invoked,
                               emitted, lastProgress, errorCarried, dest,
                               hostVars, others>>
           ELSE /\ others < MaxOtherRuns
                /\ others' = others + 1
                /\ obs' = [obs EXCEPT !.declined = @ \/ answer = "No"]
                /\ UNCHANGED <<formVars, taskVars, dest, destBefore, hostVars,
                               request>>

\* Brf2EbrfDialog.on_apply, the slot of the Convert button's clicked (an
\* enabled button only): brf_list of n files is made from input_brf; when a
\* file exists at output_ebrf the user is asked and "No" returns (obs notes
\* that a click was declined); otherwise the task is started.
OnApply ==
    /\ convert_enabled
    /\ \E n \in 0..MaxInputs, answer \in Answers :
        IF dest # "absent" /\ answer = "No"
        THEN /\ obs' = [obs EXCEPT !.declined = TRUE]
             /\ UNCHANGED <<formVars, taskVars, dest, destBefore, hostVars, applyVars>>
        ELSE /\ dest = "absent" => answer = "Yes"
             /\ StartTask(n)

Next ==
    \/ Call \/ OpenOutput \/ MakeTempDir \/ CreateParser
    \/ PrimProgress \/ PrimProgressNoSteps \/ PrimCancelled \/ PrimFail \/ PrimReturn
    \/ LoopEnd \/ MakeArchive \/ CopyArchive \/ EmitFinished
    \/ HandleCancelled \/ HandleError \/ Cancel

\* One run of a ConvertTask on the worker, with cancel() at any moment.
Spec == Init /\ [][Next]_vars

\* The settings forms of the dialog while no conversion runs.
SpecForm == FormInit /\ [][FormNext]_vars

SpecSetters == FormInit /\ [][SetterNext]_vars

\* The dialog with an input and an output chosen, before any conversion; a
\* file exists at output_ebrf, so that on_apply asks before overwriting it.
DialogInit ==
    /\ FormFieldsInit
    /\ input_brf = "p"
    /\ output_ebrf = "q"
    /\ convert_enabled = DialogValidity(is_valid, input_brf,
                             ImageDirectory(include_images, image_dir), output_ebrf)
    /\ NoTask
    /\ dest = "old"
    /\ destBefore = dest

\* The page number slots and the Convert button of the dialog.
DialogNext ==
    \/ SetOddBpn \/ SetEvenBpn \/ SetEvenPpn
    \/ OnApply

SpecDialog == DialogInit /\ [][DialogNext]_vars

\* The image fields, the "Has running heads" checkbox, one page number slot
\* and the Convert button of the dialog.
GeneralNext ==
    \/ ToggleIncludeImages \/ BrowseImages
    \/ ToggleDetectRunningHeads
    \/ SetOddBpn
    \/ OnApply

SpecGeneral == DialogInit /\ [][GeneralNext]_vars


\* =====================================================================
\* Properties
\* =====================================================================

LastEmitted == IF emitted = <<>> THEN "nothing" ELSE emitted[Len(emitted)]

TerminalCount == Cardinality({i \in DOMAIN emitted : emitted[i] \in Terminals})

HasEmitted(kind) == \E i \in DOMAIN emitted : emitted[i] = kind

\* The steps of __call__ up to and including the copy into out_file.
BeforeFinalStep == pc \in {"call", "open", "mktemp", "loop", "primitive", "archive", "copy"}

\* C1: in every run, whether the primitive returns, raises the cancellation
\* signal or fails, the notifications are emitted in the order started, then
\* zero or more progress, then exactly one of finished / cancelled /
\* errorRaised, and nothing is emitted after the terminal notification.
C1_NotificationOrder ==
    /\ \A i \in DOMAIN emitted :
        /\ emitted[i] \in {"started", "progress"} \cup Terminals
        /\ (emitted[i] = "started") <=> (i = 1)
        /\ emitted[i] \in Terminals => i = Len(emitted)
    /\ (Ended /\ obs.raisedBy \in {"none", ParsingCancelledException, "Exception:convert"})
           => TerminalCount = 1

\* C2: before the final copy step the file at output_ebrf is exactly as it was
\* before the run, and the destination is written exactly once per run.
C2_DestinationWrittenOnlyAtEnd ==
    /\ BeforeFinalStep => dest = destBefore
    /\ obs.destChanges <= 1
    /\ HasEmitted("finished") => obs.destChanges = 1

\* C3: if the primitive raises a non-cancellation failure on input k, the run
\* ends with errorRaised, output_ebrf then does not exist or is unchanged, and
\* the primitive is never invoked for an input after k.
C3_PrimitiveFailure ==
    obs.primFailedAt >= 0 =>
        /\ \A j \in invoked : j <= obs.primFailedAt
        /\ Ended => /\ LastEmitted = "errorRaised"
                    /\ dest \in {"absent", destBefore}

\* C4: if cancel() is called before the conversion of the first input starts,
\* the run ends with cancelled, never finished, and no file is at output_ebrf
\* (stated for the runs in which no step fails and unlink succeeds).
C4_CancelBeforeFirstInput ==
    (/\ obs.cancelBeforeFirst
     /\ num_of_inputs > 0
     /\ ~obs.failure
     /\ ~obs.unlinkFailed) =>
        /\ ~HasEmitted("finished")
        /\ Ended => LastEmitted = "cancelled" /\ dest = "absent"

\* C5: if cancel() is called after input k has completed and before input k+1
\* has finished, the run ends with cancelled, no file is at output_ebrf, and no
\* parser is created and no primitive called for an input after k+1 (stated
\* for the runs in which no step fails and unlink succeeds).
C5_CancelBetweenInputs ==
    (/\ obs.cancelDone >= 1
     /\ obs.cancelDone < num_of_inputs
     /\ ~obs.failure
     /\ ~obs.unlinkFailed) =>
        /\ \A j \in parsersCreated \cup invoked : j <= obs.cancelDone
        /\ Ended => LastEmitted = "cancelled" /\ dest = "absent"

\* C6: every run that has ended has emitted exactly one terminal notification,
\* whichever step failed, the clean-up of the destination included.
C6_ExactlyOneTerminal ==
    Ended => TerminalCount = 1

\* C7: on every non-success exit the destination file is removed and the
\* cancelled / errorRaised notification is emitted with the original reason,
\* a failure of the delete being ignored.
C7_BestEffortRemoval ==
    (Ended /\ obs.raisedBy \in {ParsingCancelledException, "Exception:convert",
                                 "Exception:make_archive", "OSError:copyfileobj"}) =>
        /\ dest = "absent"
        /\ IF obs.failure
           THEN LastEmitted = "errorRaised" /\ errorCarried = obs.raisedBy
           ELSE LastEmitted = "cancelled"

\* The value shown stays within [0, 1].
C8_Range ==
    shown # <<>> =>
        /\ shown[2] > 0
        /\ LeqFrac(<<0, 1>>, shown)
        /\ LeqFrac(shown, <<1, 1>>)

\* A step never lowers the value shown, and a progress notification carries
\* the position of the input being converted (the number of inputs done).
C8_Step ==
    /\ (shown # <<>> /\ shown' # <<>>) => LeqFrac(shown, shown')
    /\ (Len(emitted') > Len(emitted) /\ emitted'[Len(emitted')] = "progress") =>
           /\ lastProgress'.index = Cardinality(staged)
           /\ lastProgress'.index < num_of_inputs

\* C8: with a primitive reporting non-decreasing steps in 0..parser_steps, the
\* overall fraction shown by update_progress is non-decreasing, never below 0
\* and never above 1, and each progress notification carries the index of the
\* input being converted.
C8_OverallFractionMonotone ==
    [](C8_Range) /\ [][C8_Step]_vars

\* C8 witness: a second input is being converted and its progress has moved
\* the value shown strictly between 0 and 1.
C8_Witness ==
    /\ pc = "primitive"
    /\ index >= 1
    /\ callbacks = MaxCallbacks
    /\ lastProgress # <<>>
    /\ lastProgress.index = index
    /\ shown[1] > 0
    /\ ~IsOne(shown)

\* Every input so far reported its progress from 0 up to parser_steps.
FullReports == obs.contractFull /\ obs.firstX <= 0

\* C9 as stated: when every input reports 0.0 to 1.0, the progression passes
\* 0/N .. (N-1)/N and 1.0 is reported exactly once, at Completed, never by a
\* progress notification and never in a run that ends Cancelled or Failed.
C9_OneOnlyAtCompleted ==
    (num_of_inputs > 0 /\ FullReports) =>
        /\ obs.onesByProgress = 0
        /\ HasEmitted("finished") =>
               /\ obs.onesByFinished = 1
               /\ (0..(num_of_inputs - 1)) \subseteq obs.crossed
        /\ (~HasEmitted("finished") /\ shown # <<>>) => ~IsOne(shown)

\* C9 amended: a progress notification reports 1.0 only for the final step of
\* the last input; the finished slot reports 1.0 exactly once, in a Completed
\* run and in no other; and a Completed run whose inputs all reported 0.0 to
\* 1.0 has passed every k/N, k = 0..N, the last of them also by progress.
C9_OneAtLastStepAndCompleted ==
    /\ \A a \in obs.oneSources :
        /\ a.index = num_of_inputs - 1
        /\ a.fraction[1] = a.fraction[2]
    /\ obs.onesByFinished = (IF HasEmitted("finished") THEN 1 ELSE 0)
    /\ (num_of_inputs > 0 /\ FullReports /\ HasEmitted("finished")) =>
           /\ obs.crossed = 0..num_of_inputs
           /\ obs.onesByProgress >= 1

\* C9 witness: a Completed run over three inputs, each reporting 0.0 to 1.0.
C9_Witness ==
    /\ num_of_inputs = 3
    /\ pc = "returned"
    /\ LastEmitted = "finished"
    /\ FullReports
    /\ obs.onesByProgress = 1
    /\ obs.onesByFinished = 1
    /\ obs.crossed = 0..3

\* The placement rule as the specification words it: a parity is rejected when
\* its braille and print placements are equal and neither is none.
ParityRejected(braille, print) ==
    braille = print /\ braille # NONE /\ print # NONE

\* C10: for every combination of the four slots, is_valid as computed by
\* _update_validity is false exactly when the odd or the even parity is
\* rejected; equal non-none odd placements give false, and odd braille = none
\* leaves the odd parity accepted for every odd print value.
C10_ValidityMatchesRule ==
    /\ is_valid = ~(\/ ParityRejected(odd_bpn_position, odd_ppn_position)
                    \/ ParityRejected(even_bpn_position, even_ppn_position))
    /\ (odd_bpn_position = odd_ppn_position /\ odd_bpn_position # NONE) => ~is_valid
    /\ odd_bpn_position = NONE =>
           (is_valid <=> ~ParityRejected(even_bpn_position, even_ppn_position))

\* C10 witness: both odd slots were set to the same non-none placement and
\* the form is invalid.
C10_Witness ==
    /\ odd_bpn_position = "TOP_LEFT"
    /\ odd_ppn_position = "TOP_LEFT"
    /\ even_bpn_position = NONE
    /\ ~is_valid


\* The readiness the specification words: the required fields are non-empty,
\* the image directory too when images are included, and no parity is
\* rejected.
ReadyRule ==
    /\ input_brf # ""
    /\ output_ebrf # ""
    /\ include_images => image_dir # ""
    /\ ~ParityRejected(odd_bpn_position, odd_ppn_position)
    /\ ~ParityRejected(even_bpn_position, even_ppn_position)

\* C11: after any sequence of field changes the Convert button is enabled
\* exactly when the current field values are ready; in particular it is
\* disabled whenever output_ebrf is empty and whenever images are included
\* with an empty image directory.
C11_ReadinessIsPureFunction ==
    /\ convert_enabled = ReadyRule
    /\ output_ebrf = "" => ~convert_enabled
    /\ (include_images /\ image_dir = "") => ~convert_enabled

\* The validity the rule gives to four slots.
RuleValid(ob, op, eb, ep) ==
    ~ParityRejected(ob, op) /\ ~ParityRejected(eb, ep)

\* A step that changes one of the four placement slots.
SlotChange ==
    <<odd_bpn_position, odd_ppn_position, even_bpn_position, even_ppn_position>>' #
    <<odd_bpn_position, odd_ppn_position, even_bpn_position, even_ppn_position>>

\* What a slot change does to the notification: it fires, carrying the new
\* value, exactly when the rule's value for the new slots differs from its
\* value for the old ones, and is_valid is the rule of the new slots.
C12_Step ==
    SlotChange =>
        LET old == RuleValid(odd_bpn_position, odd_ppn_position,
                             even_bpn_position, even_ppn_position)
            new == RuleValid(odd_bpn_position', odd_ppn_position',
                             even_bpn_position', even_ppn_position')
        IN  /\ is_valid' = new
            /\ isValidChanged' = (IF new # old THEN <<new>> ELSE NotEmitted)

\* C12: isValidChanged is edge-triggered: over any sequence of slot changes it
\* fires exactly when the derived boolean changes, carries the new value, never
\* fires when the boolean is unchanged, and is_valid follows the rule.
C12_EdgeTriggered ==
    [][C12_Step]_vars

\* C12 witness: a slot change made the odd placements collide, and the
\* notification it emitted carried False.
C12_Witness ==
    /\ isValidChanged = <<FALSE>>
    /\ ~is_valid
    /\ odd_bpn_position = odd_ppn_position
    /\ even_bpn_position = NONE

\* The run has left _convert: it is in a handler of __call__, about to emit
\* finished, or over.
LeftConvert ==
    pc \in {"emit_finished", "except_cancelled", "except_error", "returned", "raised"}

\* C14: once the run has left _convert, on every exit path (success,
\* cancellation raised by the primitive, failure of the primitive on any
\* input, failure of packaging), neither the staging directory of the
\* per-input outputs nor the one of the assembled archive exists any more;
\* so none exists when the terminal notification is emitted or afterwards.
C14_StagingRemoved ==
    /\ LeftConvert => ~temp_dir /\ ~out_temp_dir
    /\ TerminalCount > 0 => ~temp_dir /\ ~out_temp_dir

\* C14 witness: packaging failed after every input was staged, the run ended
\* with errorRaised, and both staging directories are gone.
C14_Witness ==
    /\ pc = "returned"
    /\ obs.raisedBy = "OSError:copyfileobj"
    /\ staged # {}
    /\ HasEmitted("errorRaised")
    /\ ~temp_dir
    /\ ~out_temp_dir

\* No index occurs twice in the sequence of primitive calls.
NoRepeat(calls) ==
    \A i, j \in 1..Len(calls) : calls[i] = calls[j] => i = j

\* C15, on states: no input is given to the primitive twice, a step that
\* raised has ended _convert for good, and errorRaised carries the very
\* exception the failing step raised.
C15_State ==
    /\ NoRepeat(obs.calls)
    /\ obs.raisedBy # "none" => LeftConvert
    /\ HasEmitted("errorRaised") =>
          /\ obs.raisedBy \in Failures
          /\ errorCarried = obs.raisedBy

\* C15, on steps: after a step has raised, no parser is created, no primitive
\* is called and nothing is staged any more.
C15_Step ==
    obs.raisedBy # "none" =>
        /\ obs'.calls = obs.calls
        /\ obs'.raisedBy = obs.raisedBy
        /\ UNCHANGED <<parsersCreated, invoked, staged, index>>

\* C15: the run never retries: the primitive is invoked at most once per
\* input, the first failure is terminal for the run, and errorRaised carries
\* exactly the exception raised by the failing step.
C15_NoRetryVerbatim == []C15_State /\ [][C15_Step]_vars

\* C15 witness: the primitive failed on the second input; it had been called
\* once for each of the two, and errorRaised carried that failure.
C15_Witness ==
    /\ pc = "returned"
    /\ obs.calls = <<0, 1>>
    /\ obs.primFailedAt = 1
    /\ obs.raisedBy = "Exception:convert"
    /\ emitted[Len(emitted)] = "errorRaised"
    /\ errorCarried = "Exception:convert"

\* C16, on steps: once the run is over, a step (only cancel can still be
\* taken) emits nothing, leaves the carried exception, the destination file,
\* the progress dialog and the run's position as they are.
C16_Step ==
    Ended => UNCHANGED <<emitted, errorCarried, exc, dest, pc, hostVars>>

\* C16: cancel() after the run has reached its terminal state is a no-op:
\* it emits no notification, does not change the reported outcome and does
\* not touch the file at output_ebrf, whichever notification ended the run.
C16_CancelAfterEndIsNoOp == [][C16_Step]_vars

\* C16 witness: cancel() was called on a run that had already emitted
\* finished; the archive is still in place and finished is still the last
\* notification.
C16_Witness ==
    /\ pc = "returned"
    /\ cancel_requested
    /\ obs.cancelCalled
    /\ obs.cancelDone = -1
    /\ ~obs.cancelBeforeFirst
    /\ dest = "archive"
    /\ emitted[Len(emitted)] = "finished"
    /\ TerminalCount = 1

\* The calls of the primitive for n inputs in list order: 0, 1, ..., n - 1.
InOrder(n) == [i \in 1..n |-> i - 1]

\* C19, on states: when finished has been emitted, the primitive was called
\* once per input in list order, every input is staged, no step raised, the
\* archive was made from all staged outputs and the images directory, and
\* the destination holds the archive and is closed.
C19_State ==
    HasEmitted("finished") =>
        /\ obs.calls = InOrder(num_of_inputs)
        /\ staged = 0..(num_of_inputs - 1)
        /\ obs.raisedBy = "none"
        /\ obs.archivedVols = 0..(num_of_inputs - 1)
        /\ obs.archivedImages
        /\ dest = "archive"
        /\ ~out_file_open

\* C19, on steps: the primitive is entered for input index only from the
\* head of the loop, when the calls for all earlier inputs have returned
\* and staged their outputs.
C19_Step ==
    obs'.calls # obs.calls =>
        /\ pc = "loop"
        /\ pc' = "primitive"
        /\ obs'.calls = Append(obs.calls, index)
        /\ obs.calls = InOrder(index)
        /\ staged = 0..(index - 1)

\* C19: finished is emitted only after the primitive has been invoked
\* exactly once for every input, in list order, none of the calls raised,
\* the archive was assembled from all staged outputs plus the images
\* directory and the destination was written and closed; the call for
\* input i+1 never starts before the call for input i has returned.
C19_FinishedOnlyAfterAllInputs == []C19_State /\ [][C19_Step]_vars

\* C19 witness: a run over two inputs emitted finished after calling the
\* primitive for input 0, then for input 1.
C19_Witness ==
    /\ pc = "returned"
    /\ num_of_inputs = 2
    /\ obs.calls = <<0, 1>>
    /\ obs.archivedVols = {0, 1}
    /\ emitted[Len(emitted)] = "finished"
    /\ dest = "archive"

\* C20: when the run is over, its outcome is fixed by how the work ended:
\* finished was emitted iff no step raised, cancelled iff a step raised
\* ParsingCancelledException, errorRaised iff a step raised anything else;
\* cancelled is never emitted on a run whose cancel() was never called.
C20_OutcomeByHowWorkEnded ==
    /\ Ended =>
          /\ HasEmitted("finished") <=> obs.raisedBy = "none"
          /\ HasEmitted("cancelled") <=> obs.raisedBy = ParsingCancelledException
          /\ HasEmitted("errorRaised") <=> obs.raisedBy \in Failures
    /\ HasEmitted("cancelled") => obs.cancelCalled

\* The tasks given to the thread pool that have not ended: the one followed,
\* from on_apply to the return of __call__, and the further ones.
RunsInFlight ==
    (IF pc \in {"none", "returned", "raised"} THEN 0 ELSE 1) + others

\* C13: at most one run is in flight: on_apply never gives a second
\* ConvertTask to the thread pool while an earlier one has not ended.
C13_AtMostOneRunInFlight ==
    RunsInFlight <= 1

\* The placement rule on a PageLayout.
LayoutValid(pl) ==
    RuleValid(pl.odd_braille_page_number, pl.odd_print_page_number,
              pl.even_braille_page_number, pl.even_print_page_number)

\* C17, on states: the Convert button is disabled whenever the slots break
\* the placement rule, and the page_layout of the submitted task obeys it.
C17_State ==
    /\ convert_enabled =>
          RuleValid(odd_bpn_position, odd_ppn_position,
                    even_bpn_position, even_ppn_position)
    /\ request # NoRequest => LayoutValid(request[1].page_layout)

\* C17, on steps: a step that submits a task (the first or a further one) is
\* taken with slots that obey the placement rule.
C17_Step ==
    (request' # request \/ others' # others) =>
        RuleValid(odd_bpn_position, odd_ppn_position,
                  even_bpn_position, even_ppn_position)

\* C17: every run started through the dialog carries a page_layout that
\* satisfies the placement rule: after any slot changes, no task is started
\* with odd braille = odd print or even braille = even print at a position
\* other than NONE.
C17_RunCarriesValidLayout == []C17_State /\ [][C17_Step]_vars

\* C17 witness: after slot changes a task was started with even braille
\* and even print at different corners; a later change then made the odd
\* slots collide and the button is disabled.
C17_Witness ==
    /\ request # NoRequest
    /\ request[1].page_layout.even_braille_page_number = "TOP_LEFT"
    /\ request[1].page_layout.even_print_page_number = "BOTTOM_LEFT"
    /\ request[1].page_layout.odd_braille_page_number = "BOTTOM_LEFT"
    /\ odd_bpn_position = odd_ppn_position
    /\ ~convert_enabled

\* The request holds what the fields held when on_apply ran.
RequestIsSnapshot(r, a) ==
    /\ r.input_brf = a.input_brf
    /\ r.num_of_inputs = a.n
    /\ r.output_ebrf = a.output_ebrf
    /\ r.image_directory = (IF a.include_images THEN a.image_dir ELSE PyNone)
    /\ r.detect_running_heads = a.detect_running_heads
    /\ r.page_layout.odd_braille_page_number = a.odd_bpn
    /\ r.page_layout.even_braille_page_number = a.even_bpn
    /\ r.page_layout.odd_print_page_number = a.odd_ppn
    /\ r.page_layout.even_print_page_number = a.even_ppn

\* C18, on states: the arguments of the submitted task are the values the
\* fields held when on_apply ran.
C18_State ==
    request # NoRequest =>
        /\ Len(obs.applied) = 1
        /\ RequestIsSnapshot(request[1], obs.applied[1])

\* C18, on steps: once a task is submitted, no step changes its arguments.
C18_Step ==
    request # NoRequest => request' = request

\* C18: the request is fixed when the run is triggered: input list, output
\* path, image directory, detect_running_heads and page layout are the
\* values of the fields when on_apply ran, and later field changes leave
\* the request of the run in flight unchanged.
C18_RequestFixedAtTrigger == []C18_State /\ [][C18_Step]_vars

\* C18 witness: a task is in flight with the values of the moment of the
\* click, and the checkbox and a slot have been changed since.
C18_Witness ==
    /\ pc = "call"
    /\ request # NoRequest
    /\ request[1].detect_running_heads
    /\ ~detect_running_heads
    /\ request[1].page_layout.odd_braille_page_number = "BOTTOM_RIGHT"
    /\ odd_bpn_position = "TOP_LEFT"
    /\ request[1].num_of_inputs = 2

\* C21, on states: ParsingCancelledException has been raised only on a task
\* whose flag was set, and the flag is set only by a call of cancel().
C21_State ==
    /\ obs.raisedBy = ParsingCancelledException => cancel_requested
    /\ cancel_requested <=> obs.cancelCalled

\* C21, on steps: the flag is never reset; the step that sets it changes
\* nothing else of the task, the file or the host (no notification, the
\* position of the worker and a primitive call in progress stay as they
\* are); and the cancellation signal is raised only from inside the
\* primitive, when is_cancelled reads a set flag.
C21_Step ==
    /\ cancel_requested => cancel_requested'
    /\ cancel_requested' # cancel_requested =>
          UNCHANGED <<formVars, applyVars, pc, num_of_inputs, index, parser_steps,
                      lastX, callbacks, exc, temp_dir, out_temp_dir, out_file_open,
                      staged, parsersCreated, invoked, emitted, lastProgress,
                      errorCarried, dest, destBefore, hostVars>>
    /\ (obs'.raisedBy = ParsingCancelledException /\ obs.raisedBy = "none") =>
          /\ pc = "primitive"
          /\ cancel_requested
          /\ cancel_requested'

\* C21: cancel() is purely cooperative: it only sets the flag, which is
\* never reset, it emits nothing itself and does not interrupt a primitive
\* call in progress; the primitive sees the flag only through is_cancelled.
C21_CancelIsCooperative == []C21_State /\ [][C21_Step]_vars

\* C21 witness: cancel() was called while the primitive was working on the
\* only input; the call went on, returned, and the run emitted finished
\* with the flag still set.
C21_Witness ==
    /\ num_of_inputs = 1
    /\ cancel_requested
    /\ obs.cancelCalled
    /\ ~obs.cancelBeforeFirst
    /\ obs.cancelDone = 0
    /\ staged = {0}
    /\ emitted[Len(emitted)] = "finished"

\* C22, on steps: the step in which a click on Convert is answered No (a
\* file exists at output_ebrf) creates and starts no task, emits nothing and
\* leaves the file, the forms and the progress dialog as they are.
C22_Step ==
    (obs'.declined /\ ~obs.declined) =>
        /\ dest # "absent"
        /\ UNCHANGED <<formVars, taskVars, dest, destBefore, hostVars, applyVars>>

\* C22: when Convert is clicked while a file exists at output_ebrf and the
\* user answers No, no ConvertTask is created or started, no notification
\* is emitted and the existing file is left unchanged.
C22_DeclinedOverwriteDoesNothing == [][C22_Step]_vars

\* C22 witness: a click was answered No; there is still no task, nothing
\* was emitted and the old file is in place.
C22_Witness ==
    /\ obs.declined
    /\ pc = "none"
    /\ request = NoRequest
    /\ others = 0
    /\ emitted = <<>>
    /\ dest = "old"
    /\ convert_enabled

\* C23, on states: image_directory is None exactly when the checkbox is
\* unchecked, for the form and for the request of a started task; an
\* unchecked form holds no directory; and no task is started with images
\* included and an empty image directory.
C23_State ==
    /\ ImageDirectory(include_images, image_dir) = PyNone <=> ~include_images
    /\ ~include_images => image_dir = ""
    /\ request # NoRequest =>
          /\ request[1].image_directory = PyNone <=> ~obs.applied[1].include_images
          /\ request[1].image_directory # ""

\* C23, on steps: unchecking clears the stored directory, and checking
\* again yields the empty string, not the earlier path.
C23_Step ==
    include_images' # include_images =>
        /\ image_dir' = ""
        /\ ImageDirectory(include_images', image_dir') =
              (IF include_images' THEN "" ELSE PyNone)

\* C23: the image directory is None iff image inclusion is unchecked,
\* unchecking clears the stored directory so that re-checking yields "",
\* and no run is started with image inclusion enabled and an empty image
\* directory.
C23_ImageDirectoryAbsentIffUnchecked == []C23_State /\ [][C23_Step]_vars

\* C24: after a value is assigned through the setter of input_brf,
\* image_directory or output_ebrf, the property returns that value, the
\* field's changed signal has fired when the value differs from the one
\* before, and the dialog has recomputed the Convert button.
C24_SettersRoundTrip ==
    obs.lastSet # <<>> =>
        LET s == obs.lastSet[1] IN
        /\ s.read = s.value
        /\ s.value # s.old => s.fired /\ s.recomputed

====
